---- MODULE Spec2Model ----
(***************************************************************************)
(* Scene transform propagation of eren_ts_2d: Transform (local state with  *)
(* a dirty flag), GlobalTransform (accumulated matrix and alpha with the   *)
(* skip optimisation) and SpriteNode.update (update, render request,       *)
(* finalize).                                                              *)
(*                                                                         *)
(* Numbers.  Coordinates and scale factors are integers, a rotation is an  *)
(* integer number of quarter turns (so that sin and cos are exact), and an *)
(* alpha is an exact fraction <<numerator, denominator>>.  A mat3 is the   *)
(* 9-tuple gl-matrix uses, column-major: entries 1..3 are the first        *)
(* column.                                                                 *)
(***************************************************************************)
EXTENDS Integers, Sequences, FiniteSets, TLC

\* ------------------------------------------------------------------ bounds
MaxNodes == 2
MaxFrames == 2
MaxSetterCalls == 1
MaxCalls == 5

Nodes == 1..MaxNodes
Root == 0

\* ------------------------------------------------------- exact arithmetic
Abs(x) == IF x < 0 THEN -x ELSE x

RECURSIVE GCD(_, _)
GCD(a, b) == IF b = 0 THEN a ELSE GCD(b, a % b)

\* a fraction in lowest terms, denominator positive
Frac(n, d) ==
  IF n = 0 THEN <<0, 1>>
  ELSE LET g == GCD(Abs(n), d) IN <<n \div g, d \div g>>

\* the product of two numbers (the * of transform.ts line 125)
FracMul(a, b) == Frac(a[1] * b[1], a[2] * b[2])

One == <<1, 1>>

\* Math.cos / Math.sin of q quarter turns
Cos(q) == CASE q % 4 = 0 -> 1 [] q % 4 = 1 -> 0 [] q % 4 = 2 -> -1 [] OTHER -> 0
Sin(q) == CASE q % 4 = 0 -> 0 [] q % 4 = 1 -> 1 [] q % 4 = 2 -> 0 [] OTHER -> -1

\* ------------------------------------------------------ gl-matrix, as used
vec2_create == <<0, 0>>
vec2_negate(a) == <<-a[1], -a[2]>>
vec2_sub(a, b) == <<a[1] - b[1], a[2] - b[2]>>

mat3_create == <<1, 0, 0, 0, 1, 0, 0, 0, 1>>
mat3_fromTranslation(v) == <<1, 0, 0, 0, 1, 0, v[1], v[2], 1>>
mat3_fromRotation(q) == <<Cos(q), Sin(q), 0, -Sin(q), Cos(q), 0, 0, 0, 1>>
mat3_fromScaling(v) == <<v[1], 0, 0, 0, v[2], 0, 0, 0, 1>>

\* out = a * b on column-major storage
mat3_multiply(a, b) ==
  << b[1] * a[1] + b[2] * a[4] + b[3] * a[7],
     b[1] * a[2] + b[2] * a[5] + b[3] * a[8],
     b[1] * a[3] + b[2] * a[6] + b[3] * a[9],
     b[4] * a[1] + b[5] * a[4] + b[6] * a[7],
     b[4] * a[2] + b[5] * a[5] + b[6] * a[8],
     b[4] * a[3] + b[5] * a[6] + b[6] * a[9],
     b[7] * a[1] + b[8] * a[4] + b[9] * a[7],
     b[7] * a[2] + b[8] * a[5] + b[9] * a[8],
     b[7] * a[3] + b[8] * a[6] + b[9] * a[9] >>

\* ---------------------------------------------------------------- Transform
\* a Transform constructed clean
NewTransform_Clean ==
  [position |-> vec2_create, pivot |-> vec2_create, scale |-> vec2_create,
   rotation |-> 0, alpha |-> One, dirty |-> FALSE]

\* new Transform(): note that scale is vec2.create(), the zero vector
NewTransform ==
  [position |-> vec2_create, pivot |-> vec2_create, scale |-> vec2_create,
   rotation |-> 0, alpha |-> One, dirty |-> TRUE]

set_position(t, value) == [t EXCEPT !.position = value, !.dirty = TRUE]
set_pivot(t, value) == [t EXCEPT !.pivot = value, !.dirty = TRUE]
set_scale(t, value) == [t EXCEPT !.scale = value, !.dirty = TRUE]
\* a setter that marks the Transform only when the value differs
set_rotation_IfChanged(t, value) ==
  IF t.rotation = value THEN t ELSE [t EXCEPT !.rotation = value, !.dirty = TRUE]
set_rotation(t, value) == [t EXCEPT !.rotation = value, !.dirty = TRUE]
set_alpha(t, value) == [t EXCEPT !.alpha = value, !.dirty = TRUE]

\* a clearDirty that leaves the flag as it is
clearDirty_Kept(t) == t
isDirty(t) == t.dirty
clearDirty(t) == [t EXCEPT !.dirty = FALSE]

\* --------------------------------------------------------- GlobalTransform
\* new GlobalTransform(); pivotTransform is the scratch field _pivot_transform
NewGlobalTransform ==
  [matrix |-> mat3_create, alpha |-> One, dirty |-> FALSE,
   pivotTransform |-> mat3_create]

\* an early return that ignores the parent's flag
ShouldSkip_LocalOnly(parent, loc) == ~loc.dirty

\* an early return taken when either flag is clear
ShouldSkip_Either(parent, loc) == ~parent.dirty \/ ~loc.dirty

\* the early return of update
ShouldSkip(parent, loc) == ~parent.dirty /\ ~isDirty(loc)

\* a pivot transform whose last factor is built from pivot, not from -pivot
PivotTransform_NoNegate(loc) ==
  LET t1 == mat3_fromTranslation(loc.pivot)
      r == mat3_fromRotation(loc.rotation)
      s == mat3_fromScaling(loc.scale)
      t2 == mat3_fromTranslation(loc.pivot)
  IN mat3_multiply(mat3_multiply(mat3_multiply(t1, r), s), t2)

\* pivot_transform = T(pivot) * R(rotation) * S(scale) * T(-pivot)
PivotTransform(loc) ==
  LET t1 == mat3_fromTranslation(loc.pivot)
      r == mat3_fromRotation(loc.rotation)
      s == mat3_fromScaling(loc.scale)
      t2 == mat3_fromTranslation(vec2_negate(loc.pivot))
  IN mat3_multiply(mat3_multiply(mat3_multiply(t1, r), s), t2)

\* local_matrix = T(position - pivot)
LocalMatrix(loc) == mat3_fromTranslation(vec2_sub(loc.position, loc.pivot))

\* this._matrix = (parent._matrix * localMatrix) * pivotTransform
\* (ComposeMatrix_PivotFirst: the two factors in the other order)
ComposeMatrix_PivotFirst(parentMatrix, loc) ==
  mat3_multiply(mat3_multiply(parentMatrix, PivotTransform(loc)), LocalMatrix(loc))

ComposeMatrix(parentMatrix, loc) ==
  mat3_multiply(mat3_multiply(parentMatrix, LocalMatrix(loc)), PivotTransform(loc))

\* this._alpha = parent._alpha * local.alpha
\* (ComposeAlpha_Clamped: the product cut off at 1)
ComposeAlpha_Clamped(parentAlpha, localAlpha) ==
  LET a == FracMul(parentAlpha, localAlpha) IN IF a[1] > a[2] THEN One ELSE a

ComposeAlpha(parentAlpha, localAlpha) == FracMul(parentAlpha, localAlpha)

\* an update that multiplies onto its own matrix and alpha, not the parent's
GlobalTransformUpdate_Accumulate(this, parent, loc) ==
  IF ShouldSkip(parent, loc)
  THEN [g |-> this, l |-> loc, recomputed |-> FALSE]
  ELSE [g |-> [matrix |-> ComposeMatrix(this.matrix, loc),
               alpha |-> ComposeAlpha(this.alpha, loc.alpha),
               dirty |-> TRUE,
               pivotTransform |-> PivotTransform(loc)],
        l |-> clearDirty(loc),
        recomputed |-> TRUE]

\* a recomputation that does not raise the GlobalTransform's flag
GlobalTransformUpdate_NotMarked(this, parent, loc) ==
  IF ShouldSkip(parent, loc)
  THEN [g |-> this, l |-> loc, recomputed |-> FALSE]
  ELSE [g |-> [matrix |-> ComposeMatrix(parent.matrix, loc),
               alpha |-> ComposeAlpha(parent.alpha, loc.alpha),
               dirty |-> this.dirty,
               pivotTransform |-> PivotTransform(loc)],
        l |-> clearDirty(loc),
        recomputed |-> TRUE]

\* update(parent, local): the new GlobalTransform, the new Transform, and
\* whether the call recomputed
GlobalTransformUpdate(this, parent, loc) ==
  IF ShouldSkip(parent, loc)
  THEN [g |-> this, l |-> loc, recomputed |-> FALSE]
  ELSE [g |-> [matrix |-> ComposeMatrix(parent.matrix, loc),
               alpha |-> ComposeAlpha(parent.alpha, loc.alpha),
               dirty |-> TRUE,
               pivotTransform |-> PivotTransform(loc)],
        l |-> clearDirty(loc),
        recomputed |-> TRUE]

\* a finalize that leaves the flag set
GlobalTransformFinalize_Kept(this) == this

\* a finalize that resets the whole GlobalTransform
GlobalTransformFinalize_Reset(this) == NewGlobalTransform

GlobalTransformFinalize(this) == [this EXCEPT !.dirty = FALSE]

\* ------------------------------------------------------------------- state
VARIABLES
  parentOf,        \* the tree: parentOf[n] is Root or a node created before n
  local,           \* local[n]: the node's Transform
  global,          \* global[n]: the node's GlobalTransform
  renderRequests,  \* gameState.renderRequests of the current frame
  inFrame,         \* a traversal is running
  pc,              \* pc[n]: "idle", "updated" or "finalized" in this traversal
  path,            \* path[n]: "none", "skip" or "recompute" in this traversal
  frames,          \* traversals completed
  setterCalls,     \* setter calls made
  calls,           \* update and finalize calls made outside a traversal
  lastOp,          \* the operation that produced this state
  hist,            \* hist[n].read / .seen: the inputs of the node's last
                   \* recomputing update / of its last update call;
                   \* .again: that last call met the inputs of .read again
  cycle,           \* cycle[n]: progress of setter -> update -> finalize on n
  atBegin          \* atBegin[n]: the node's matrix, alpha and local dirty flag
                   \* when the current (or last) traversal began

vars == <<parentOf, local, global, renderRequests, inFrame, pc, path, frames,
          setterCalls, calls, lastOp, hist, cycle, atBegin>>

\* the traversal root: a constant identity GlobalTransform, alpha 1, clean
RootGlobalTransform == NewGlobalTransform

GlobalOf(n) == IF n = Root THEN RootGlobalTransform ELSE global[n]
ParentGlobal(n) == GlobalOf(parentOf[n])
Children(n) == {c \in Nodes : parentOf[c] = n}

\* ------------------------------------------------------------ input values
Half == <<1, 2>>
FourFifths == <<4, 5>>
ThreeHalves == <<3, 2>>

\* the values the application passes to the setters
PositionValues == {<<2, 3>>}
PivotValues == {<<1, 2>>}
ScaleValues == {<<2, 2>>}
RotationValues == {1}
AlphaValues == {ThreeHalves}

\* the Transforms a node can carry into its first frame: as constructed, or
\* configured through the setters (every one of them is dirty)
ConfiguredA ==
  [position |-> <<10, 0>>, pivot |-> <<0, 0>>, scale |-> <<1, 1>>,
   rotation |-> 0, alpha |-> Half, dirty |-> TRUE]
ConfiguredB ==
  [position |-> <<0, 5>>, pivot |-> <<0, 0>>, scale |-> <<2, 2>>,
   rotation |-> 1, alpha |-> FourFifths, dirty |-> TRUE]
ConfiguredC ==
  [position |-> <<3, 1>>, pivot |-> <<1, 2>>, scale |-> <<2, 1>>,
   rotation |-> 3, alpha |-> ThreeHalves, dirty |-> TRUE]
Configured(n) ==
  CASE n % 3 = 1 -> ConfiguredA [] n % 3 = 2 -> ConfiguredB [] OTHER -> ConfiguredC

\* the scenes a first frame can meet: every node as constructed, or every
\* node configured
Scenes == {[n \in Nodes |-> NewTransform], [n \in Nodes |-> Configured(n)]}

Trees == {f \in [Nodes -> 0..MaxNodes] : \A n \in Nodes : f[n] < n}

None == [none |-> TRUE]
Inputs(n) ==
  [parentMatrix |-> ParentGlobal(n).matrix, parentAlpha |-> ParentGlobal(n).alpha,
   position |-> local[n].position, pivot |-> local[n].pivot,
   scale |-> local[n].scale, rotation |-> local[n].rotation,
   alpha |-> local[n].alpha]

\* what a traversal finds when it begins
Snapshot ==
  [n \in Nodes |-> [matrix |-> global[n].matrix, alpha |-> global[n].alpha,
                    localDirty |-> local[n].dirty]]

Chain == [n \in Nodes |-> n - 1]

Start(trees) ==
  /\ parentOf \in trees
  /\ local \in Scenes
  /\ global = [n \in Nodes |-> NewGlobalTransform]
  /\ renderRequests = <<>>
  /\ inFrame = FALSE
  /\ pc = [n \in Nodes |-> "idle"]
  /\ path = [n \in Nodes |-> "none"]
  /\ frames = 0
  /\ setterCalls = 0
  /\ calls = 0
  /\ lastOp = [op |-> "new", node |-> Root, arg |-> 0]
  /\ hist = [n \in Nodes |-> [read |-> None, seen |-> None, again |-> FALSE]]
  /\ cycle = [n \in Nodes |-> "none"]
  /\ atBegin = Snapshot

Init == Start(Trees)

\* ------------------------------------------------------------------ setters
Setter(n, name, t, value) ==
  /\ ~inFrame
  /\ frames < MaxFrames
  /\ setterCalls < MaxSetterCalls
  /\ local' = [local EXCEPT ![n] = t]
  /\ setterCalls' = setterCalls + 1
  /\ lastOp' = [op |-> name, node |-> n, arg |-> value]
  /\ cycle' = [cycle EXCEPT ![n] = "set"]
  /\ UNCHANGED <<parentOf, atBegin, global, renderRequests, inFrame, pc, path, frames, calls,
                 hist>>

SetPosition(n, v) == Setter(n, "set_position", set_position(local[n], v), v)
SetPivot(n, v) == Setter(n, "set_pivot", set_pivot(local[n], v), v)
SetScale(n, v) == Setter(n, "set_scale", set_scale(local[n], v), v)
SetRotation(n, v) == Setter(n, "set_rotation", set_rotation(local[n], v), v)
SetAlpha(n, v) == Setter(n, "set_alpha", set_alpha(local[n], v), v)

\* ------------------------------------------------- GlobalTransform methods
\* an update that consumes the parent's flag it has read
ApplyUpdate_ClearsParent(n) ==
  LET u == GlobalTransformUpdate(global[n], ParentGlobal(n), local[n]) IN
  /\ global' = [m \in Nodes |->
                  IF m = n THEN u.g
                  ELSE IF m = parentOf[n] THEN GlobalTransformFinalize(global[m])
                  ELSE global[m]]
  /\ local' = [local EXCEPT ![n] = u.l]
  /\ lastOp' = [op |-> "update", node |-> n, arg |-> u.recomputed]
  /\ hist' = [hist EXCEPT ![n] = [read |-> IF u.recomputed THEN Inputs(n) ELSE @.read,
                                  seen |-> Inputs(n),
                                  again |-> (@.read = Inputs(n))]]
  /\ cycle' = [cycle EXCEPT ![n] = IF @ = "set" THEN "updated" ELSE "none"]

\* globalTransform.update(parentGlobalTransform, transform) on node n
ApplyUpdate(n) ==
  LET u == GlobalTransformUpdate(global[n], ParentGlobal(n), local[n]) IN
  /\ global' = [global EXCEPT ![n] = u.g]
  /\ local' = [local EXCEPT ![n] = u.l]
  /\ lastOp' = [op |-> "update", node |-> n, arg |-> u.recomputed]
  /\ hist' = [hist EXCEPT ![n] = [read |-> IF u.recomputed THEN Inputs(n) ELSE @.read,
                                  seen |-> Inputs(n),
                                  again |-> (@.read = Inputs(n))]]
  /\ cycle' = [cycle EXCEPT ![n] = IF @ = "set" THEN "updated" ELSE "none"]

\* globalTransform.finalize() on node n
ApplyFinalize(n) ==
  /\ global' = [global EXCEPT ![n] = GlobalTransformFinalize(@)]
  /\ lastOp' = [op |-> "finalize", node |-> n, arg |-> 0]
  /\ cycle' = [cycle EXCEPT ![n] = IF @ = "updated" THEN "done" ELSE "none"]

\* ------------------------------------------------------- the frame traversal
\* the asset a sprite node draws
AssetOf(n) == n + 100

\* a request that leaves alpha at its default
Request_NoAlpha(n, g) ==
  [matrixOf |-> n, emitted |-> g.matrix, alpha |-> One,
   spriteAssetId |-> AssetOf(n)]

\* { matrix: globalTransform.matrix, alpha: globalTransform.alpha,
\*   spriteAssetId: assetId }: matrix is the mat3 object of the node, which
\* the node's later updates write in place (matrixOf names it; emitted is
\* its value at the push); alpha is a number
Request(n, g) ==
  [matrixOf |-> n, emitted |-> g.matrix, alpha |-> g.alpha,
   spriteAssetId |-> AssetOf(n)]

\* a frame that begins on the queue the last one left
BeginFrame_KeepQueue ==
  /\ ~inFrame
  /\ frames < MaxFrames
  /\ inFrame' = TRUE
  /\ pc' = [n \in Nodes |-> "idle"]
  /\ path' = [n \in Nodes |-> "none"]
  /\ lastOp' = [op |-> "begin", node |-> Root, arg |-> 0]
  /\ atBegin' = Snapshot
  /\ UNCHANGED <<parentOf, local, global, renderRequests, frames, setterCalls, calls,
                 hist, cycle>>

\* the traversal of a frame begins: the backend has drained the queue of
\* the frame before
BeginFrame ==
  /\ ~inFrame
  /\ frames < MaxFrames
  /\ inFrame' = TRUE
  /\ pc' = [n \in Nodes |-> "idle"]
  /\ path' = [n \in Nodes |-> "none"]
  /\ renderRequests' = <<>>
  /\ lastOp' = [op |-> "begin", node |-> Root, arg |-> 0]
  /\ atBegin' = Snapshot
  /\ UNCHANGED <<parentOf, local, global, frames, setterCalls, calls, hist, cycle>>

\* the request built before the node's own update
NodeUpdate_PushFirst(n) ==
  /\ inFrame
  /\ pc[n] = "idle"
  /\ IF parentOf[n] = Root THEN TRUE ELSE pc[parentOf[n]] = "updated"
  /\ ApplyUpdate(n)
  /\ renderRequests' = Append(renderRequests, Request(n, global[n]))
  /\ pc' = [pc EXCEPT ![n] = "updated"]
  /\ path' = [path EXCEPT ![n] = IF lastOp'.arg THEN "recompute" ELSE "skip"]
  /\ UNCHANGED <<parentOf, atBegin, inFrame, frames, setterCalls, calls>>

\* a request only from an update that recomputed
NodeUpdate_PushOnRecompute(n) ==
  /\ inFrame
  /\ pc[n] = "idle"
  /\ IF parentOf[n] = Root THEN TRUE ELSE pc[parentOf[n]] = "updated"
  /\ ApplyUpdate(n)
  /\ renderRequests' = IF lastOp'.arg
                          THEN Append(renderRequests, Request(n, global'[n]))
                          ELSE renderRequests
  /\ pc' = [pc EXCEPT ![n] = "updated"]
  /\ path' = [path EXCEPT ![n] = IF lastOp'.arg THEN "recompute" ELSE "skip"]
  /\ UNCHANGED <<parentOf, atBegin, inFrame, frames, setterCalls, calls>>

\* SpriteNode.update up to the push: the node's own update, then its request;
\* the request holds the matrix object of the node (read through the node)
\* and the alpha value of that moment
NodeUpdate(n) ==
  /\ inFrame
  /\ pc[n] = "idle"
  /\ IF parentOf[n] = Root THEN TRUE ELSE pc[parentOf[n]] = "updated"
  /\ ApplyUpdate(n)
  /\ renderRequests' = Append(renderRequests, Request(n, global'[n]))
  /\ pc' = [pc EXCEPT ![n] = "updated"]
  /\ path' = [path EXCEPT ![n] = IF lastOp'.arg THEN "recompute" ELSE "skip"]
  /\ UNCHANGED <<parentOf, atBegin, inFrame, frames, setterCalls, calls>>

\* the finalize that ends the node's update, after its children
NodeFinalize(n) ==
  /\ inFrame
  /\ pc[n] = "updated"
  /\ \A c \in Children(n) : pc[c] # "idle"
  /\ ApplyFinalize(n)
  /\ pc' = [pc EXCEPT ![n] = "finalized"]
  /\ UNCHANGED <<parentOf, atBegin, local, renderRequests, inFrame, path, frames,
                 setterCalls, calls, hist>>

EndFrame ==
  /\ inFrame
  /\ \A n \in Nodes : pc[n] = "finalized"
  /\ inFrame' = FALSE
  /\ frames' = frames + 1
  /\ lastOp' = [op |-> "end", node |-> Root, arg |-> 0]
  /\ UNCHANGED <<parentOf, atBegin, local, global, renderRequests, pc, path, setterCalls,
                 calls, hist, cycle>>

\* the application calls one setter on one node of S
SetterCall(S) ==
  \/ \E n \in S, v \in PositionValues : SetPosition(n, v)
  \/ \E n \in S, v \in PivotValues : SetPivot(n, v)
  \/ \E n \in S, v \in ScaleValues : SetScale(n, v)
  \/ \E n \in S, v \in RotationValues : SetRotation(n, v)
  \/ \E n \in S, v \in AlphaValues : SetAlpha(n, v)

Next ==
  \/ SetterCall(Nodes)
  \/ BeginFrame
  \/ \E n \in Nodes : NodeUpdate(n)
  \/ \E n \in Nodes : NodeFinalize(n)
  \/ EndFrame

Spec == Init /\ [][Next]_vars

\* ------------------------------------- the traversal as a recursive descent
\* node.update(state, parent) calls update on its children one after the
\* other, in the order they were added (the order of their numbers), and
\* each call returns when the child has finalized
EarlierSiblings(n) == {m \in Nodes : parentOf[m] = parentOf[n] /\ m < n}

DfsUpdate(n) ==
  /\ \A m \in EarlierSiblings(n) : pc[m] = "finalized"
  /\ NodeUpdate(n)

DfsFinalize(n) ==
  /\ \A c \in Children(n) : pc[c] = "finalized"
  /\ NodeFinalize(n)

NextDfs ==
  \/ SetterCall(Nodes)
  \/ BeginFrame
  \/ \E n \in Nodes : DfsUpdate(n)
  \/ \E n \in Nodes : DfsFinalize(n)
  \/ EndFrame

SpecDfs == Init /\ [][NextDfs]_vars

\* --------------------------- SpriteNode.update as written, nodes in any order
\* update(gameState, parentGlobalTransform): the node's own update, the push
\* and finalize, in one call. Called on a parent and on its child, the
\* parent's finalize has run before the child reads the parent (parent
\* first) or the child reads the parent before the parent's update (child
\* first)
SpriteUpdate(n) ==
  LET u == GlobalTransformUpdate(global[n], ParentGlobal(n), local[n]) IN
  /\ inFrame
  /\ pc[n] = "idle"
  /\ global' = [global EXCEPT ![n] = GlobalTransformFinalize(u.g)]
  /\ local' = [local EXCEPT ![n] = u.l]
  /\ renderRequests' = Append(renderRequests, Request(n, u.g))
  /\ lastOp' = [op |-> "update", node |-> n, arg |-> u.recomputed]
  /\ hist' = [hist EXCEPT ![n] = [read |-> IF u.recomputed THEN Inputs(n) ELSE @.read,
                                  seen |-> Inputs(n),
                                  again |-> (@.read = Inputs(n))]]
  /\ cycle' = [cycle EXCEPT ![n] = IF @ = "set" THEN "done" ELSE "none"]
  /\ pc' = [pc EXCEPT ![n] = "finalized"]
  /\ path' = [path EXCEPT ![n] = IF u.recomputed THEN "recompute" ELSE "skip"]
  /\ UNCHANGED <<parentOf, atBegin, inFrame, frames, setterCalls, calls>>

NextMisordered ==
  \/ SetterCall(Nodes)
  \/ BeginFrame
  \/ \E n \in Nodes : SpriteUpdate(n)
  \/ EndFrame

SpecMisordered == Init /\ [][NextMisordered]_vars

\* --------------------------------------------- the methods called in any order
CallUpdate(n) ==
  /\ ~inFrame
  /\ calls < MaxCalls
  /\ calls' = calls + 1
  /\ ApplyUpdate(n)
  /\ UNCHANGED <<parentOf, atBegin, renderRequests, inFrame, pc, path, frames, setterCalls>>

CallFinalize(n) ==
  /\ ~inFrame
  /\ calls < MaxCalls
  /\ calls' = calls + 1
  /\ ApplyFinalize(n)
  /\ UNCHANGED <<parentOf, atBegin, local, renderRequests, inFrame, pc, path, frames,
                 setterCalls, hist>>

\* one parent (node 1, below the root) and one child (node 2)
Pair == {1, 2}

NextCalls ==
  \/ SetterCall(Pair)
  \/ \E n \in Pair : CallUpdate(n)
  \/ \E n \in Pair : CallFinalize(n)

InitCalls == Start({Chain})

SpecCalls == InitCalls /\ [][NextCalls]_vars

\* --------------------------------- what else the public surface of Transform allows
\* transform.position / .pivot / .scale hand out the internal vec2 (as does a
\* setter, which keeps the caller's vec2): writing into it changes the field
\* and touches no flag
MutateInPlace(n, field, v) ==
  /\ ~inFrame
  /\ setterCalls < MaxSetterCalls
  /\ setterCalls' = setterCalls + 1
  /\ local' = [local EXCEPT ![n][field] = v]
  /\ lastOp' = [op |-> "mutate", node |-> n, arg |-> v]
  /\ cycle' = [cycle EXCEPT ![n] = "none"]
  /\ UNCHANGED <<parentOf, atBegin, global, renderRequests, inFrame, pc, path, frames, calls,
                 hist>>

\* transform.clearDirty() called by the application
ExternalClearDirty(n) ==
  /\ ~inFrame
  /\ calls < MaxCalls
  /\ calls' = calls + 1
  /\ local' = [local EXCEPT ![n] = clearDirty(@)]
  /\ lastOp' = [op |-> "clearDirty", node |-> n, arg |-> 0]
  /\ cycle' = [cycle EXCEPT ![n] = "none"]
  /\ UNCHANGED <<parentOf, atBegin, global, renderRequests, inFrame, pc, path, frames,
                 setterCalls, hist>>

NextMisuse ==
  \/ SetterCall(Pair)
  \/ \E n \in Pair : CallUpdate(n)
  \/ \E n \in Pair : CallFinalize(n)
  \/ \E n \in Pair, v \in PositionValues : MutateInPlace(n, "position", v)
  \/ \E n \in Pair, v \in PivotValues : MutateInPlace(n, "pivot", v)
  \/ \E n \in Pair, v \in ScaleValues : MutateInPlace(n, "scale", v)
  \/ \E n \in Pair : ExternalClearDirty(n)

SpecMisuse == InitCalls /\ [][NextMisuse]_vars

\* ------------------------------------------- what a matrix does to a point
\* a column vector through a mat3 (third coordinate 1)
MatApply(m, p) ==
  <<m[1] * p[1] + m[4] * p[2] + m[7], m[2] * p[1] + m[5] * p[2] + m[8]>>

Affine(m) == m[3] = 0 /\ m[6] = 0 /\ m[9] = 1

Translate(v, p) == <<p[1] + v[1], p[2] + v[2]>>
Scale(v, p) == <<v[1] * p[1], v[2] * p[2]>>
Rotate(q, p) ==
  CASE q % 4 = 0 -> p
    [] q % 4 = 1 -> <<-p[2], p[1]>>
    [] q % 4 = 2 -> <<-p[1], -p[2]>>
    [] OTHER -> <<p[2], -p[1]>>

\* where parent * Translate(position - pivot) * Translate(pivot) *
\* Rotate(rotation) * Scale(scale) * Translate(-pivot) sends p, the rightmost
\* factor applied first
Placed(in, p) ==
  MatApply(in.parentMatrix,
    Translate(vec2_sub(in.position, in.pivot),
      Translate(in.pivot,
        Rotate(in.rotation,
          Scale(in.scale,
            Translate(vec2_negate(in.pivot), p))))))

\* three points that are not on one line fix an affine map
Probes == {<<0, 0>>, <<1, 0>>, <<0, 1>>}

MatrixIsComposition(m, in) ==
  /\ Affine(m)
  /\ \A p \in Probes : MatApply(m, p) = Placed(in, p)

\* a = p * l for fractions, by cross-multiplication
AlphaIsProduct(a, p, l) == a[2] > 0 /\ a[1] * (p[2] * l[2]) = (p[1] * l[1]) * a[2]

Fields(t) ==
  [position |-> t.position, pivot |-> t.pivot, scale |-> t.scale,
   rotation |-> t.rotation, alpha |-> t.alpha]

UpdateOf(n) == lastOp.op = "update" /\ lastOp.node = n
FrameEnded == lastOp.op = "end"

\* ------------------------------------------------------------------ claims

C2_SkipIffBothClean ==
  [][\A n \in Nodes :
       UpdateOf(n)' =>
         IF ~ParentGlobal(n).dirty /\ ~local[n].dirty
         THEN /\ lastOp'.arg = FALSE
              /\ global'[n] = global[n]
              /\ local'[n] = local[n]
         ELSE /\ lastOp'.arg = TRUE
              /\ MatrixIsComposition(global'[n].matrix, Inputs(n))
              /\ AlphaIsProduct(global'[n].alpha, ParentGlobal(n).alpha,
                                local[n].alpha)]_vars

\* an update skipped on a node that had been computed before
C2_Witness ==
  \E n \in Nodes : UpdateOf(n) /\ lastOp.arg = FALSE /\ hist[n].read # None

\* C3: each of the five setters stores the given value in its field and
\* leaves the Transform dirty, whatever the flag was and also when the value
\* is the one the field already had.
C3_SetterStoresAndDirties ==
  LET t == local[lastOp.node] IN
  /\ lastOp.op = "set_position" => t.position = lastOp.arg /\ t.dirty
  /\ lastOp.op = "set_pivot" => t.pivot = lastOp.arg /\ t.dirty
  /\ lastOp.op = "set_scale" => t.scale = lastOp.arg /\ t.dirty
  /\ lastOp.op = "set_rotation" => t.rotation = lastOp.arg /\ t.dirty
  /\ lastOp.op = "set_alpha" => t.alpha = lastOp.arg /\ t.dirty

\* the one setter call of the run came after an update had consumed the
\* Transform (so the flag was false) and passed the value already stored
C3_Witness ==
  \E n \in Nodes :
    /\ lastOp.op = "set_rotation" /\ lastOp.node = n
    /\ setterCalls = 1
    /\ hist[n].read # None
    /\ hist[n].read.rotation = lastOp.arg

\* C4: a recomputing update ends with the local flag false and the
\* GlobalTransform's flag true; finalize sets the GlobalTransform's flag
\* false; so after setter, update, finalize on a node both flags are false.
C4_DirtyLifecycle ==
  /\ \A n \in Nodes : UpdateOf(n) /\ lastOp.arg => ~local[n].dirty /\ global[n].dirty
  /\ \A n \in Nodes : lastOp.op = "finalize" /\ lastOp.node = n => ~global[n].dirty
  /\ \A n \in Nodes : cycle[n] = "done" => ~local[n].dirty /\ ~global[n].dirty

\* a node has gone through setter, update, finalize
C4_Witness == \E n \in Nodes : cycle[n] = "done"

\* C5: whenever update recomputes, the matrix is parent * Translate(position
\* - pivot) * Translate(pivot) * Rotate * Scale * Translate(-pivot) of the
\* inputs it read; for A = (position (10,0), scale (1,1), alpha 1/2) below the
\* root and B = (position (0,5), rotation 90 degrees, scale (2,2), alpha 4/5)
\* below A, B's matrix is translate(10,0) translate(0,5) rotate scale and its
\* alpha is 2/5.
ExampleA == [Fields(ConfiguredA) EXCEPT !.alpha = Half] @@
            [parentMatrix |-> mat3_create, parentAlpha |-> One]
ExampleB == Fields(ConfiguredB) @@
            [parentMatrix |-> <<1, 0, 0, 0, 1, 0, 10, 0, 1>>, parentAlpha |-> Half]

C5_MatrixComposition ==
  /\ \A n \in Nodes :
       hist[n].read # None => MatrixIsComposition(global[n].matrix, hist[n].read)
  /\ \A a, b \in Nodes :
       hist[a].read = ExampleA /\ hist[b].read = ExampleB =>
         /\ global[a].matrix = <<1, 0, 0, 0, 1, 0, 10, 0, 1>>
         /\ global[a].alpha = <<1, 2>>
         /\ global[b].matrix = <<0, 2, 0, -2, 0, 0, 10, 5, 1>>
         /\ global[b].alpha = <<2, 5>>

\* A and B of the example have both been computed
C5_Witness ==
  \E a, b \in Nodes :
    /\ parentOf[a] = Root /\ parentOf[b] = a
    /\ hist[a].read = ExampleA /\ hist[b].read = ExampleB

\* C6: after a frame the alpha of every node is the product of the local
\* alphas on its chain from the root, with no clamping.
RECURSIVE ChainNum(_), ChainDen(_)
ChainNum(n) == IF n = Root THEN 1 ELSE local[n].alpha[1] * ChainNum(parentOf[n])
ChainDen(n) == IF n = Root THEN 1 ELSE local[n].alpha[2] * ChainDen(parentOf[n])

C6_AlphaProduct ==
  FrameEnded =>
    \A n \in Nodes :
      /\ global[n].alpha[2] > 0
      /\ global[n].alpha[1] * ChainDen(n) = ChainNum(n) * global[n].alpha[2]

\* a frame ended with a node at depth two or more whose alpha exceeds 1
C6_Witness ==
  /\ FrameEnded
  /\ \E n \in Nodes : parentOf[n] # Root /\ global[n].alpha[1] > global[n].alpha[2]

\* C7: if every node's local Transform is as constructed (no setter ever
\* called), then after a frame every node's matrix and alpha equal its
\* parent's.
C7_IdentityPropagation ==
  (FrameEnded /\ \A n \in Nodes : Fields(local[n]) = Fields(NewTransform)) =>
    \A n \in Nodes :
      /\ global[n].matrix = ParentGlobal(n).matrix
      /\ global[n].alpha = ParentGlobal(n).alpha

\* C8: the pivotTransform built by update maps the pivot to itself, and the
\* node's matrix sends the pivot to the parent's image of the position.
C8_PivotInvariance ==
  \A n \in Nodes :
    hist[n].read # None =>
      /\ MatApply(global[n].pivotTransform, hist[n].read.pivot) = hist[n].read.pivot
      /\ MatApply(global[n].matrix, hist[n].read.pivot)
           = MatApply(hist[n].read.parentMatrix, hist[n].read.position)

\* an update recomputed with a pivot off the origin, a rotation and a scale
C8_Witness ==
  \E n \in Nodes :
    /\ hist[n].read # None
    /\ hist[n].read.pivot # <<0, 0>>
    /\ hist[n].read.rotation % 4 # 0
    /\ hist[n].read.scale # <<1, 1>>

\* C9, as claimed: an update that meets the local fields and the parent's
\* matrix and alpha of the node's previous update call leaves matrix and
\* alpha as they were.
C9_RepeatedUpdateNoOp ==
  [][\A n \in Nodes :
       (UpdateOf(n)' /\ hist[n].seen # None /\ hist[n].seen = Inputs(n)) =>
         /\ global'[n].matrix = global[n].matrix
         /\ global'[n].alpha = global[n].alpha]_vars

\* C9, amended: an update that meets the local fields and the parent's matrix
\* and alpha of the node's previous recomputing update leaves matrix and
\* alpha as they were, whether it skips or recomputes.
C9_RepeatedUpdateAfterRecompute ==
  [][\A n \in Nodes :
       (UpdateOf(n)' /\ hist[n].read # None /\ hist[n].read = Inputs(n)) =>
         /\ global'[n].matrix = global[n].matrix
         /\ global'[n].alpha = global[n].alpha]_vars

\* an update met the inputs of the previous recomputing update and
\* recomputed, the parent's flag being still set
C9_Witness ==
  \E n \in Nodes : UpdateOf(n) /\ lastOp.arg = TRUE /\ hist[n].again

\* C10: a Transform whose dirty flag is false holds the values the most
\* recent recomputing update read from it.
C10_CleanMeansConsumed ==
  \A n \in Nodes :
    ~local[n].dirty =>
      /\ hist[n].read # None
      /\ \A f \in DOMAIN Fields(local[n]) : Fields(local[n])[f] = hist[n].read[f]

\* the position of node n's request in the queue (0: none)
RequestIndex(n) ==
  IF \E i \in 1..Len(renderRequests) : renderRequests[i].matrixOf = n
  THEN CHOOSE i \in 1..Len(renderRequests) : renderRequests[i].matrixOf = n
  ELSE 0

RECURSIVE WalkFrom(_, _, _)
WalkFrom(f, p, k) ==
  IF k > MaxNodes THEN <<>>
  ELSE (IF f[k] = p THEN <<k>> \o WalkFrom(f, k, k + 1) ELSE <<>>)
         \o WalkFrom(f, p, k + 1)

Preorder(f) == WalkFrom(f, Root, 1)

\* the queue lists the nodes updated so far, in depth-first order
QueueIsPreorderPrefix ==
  LET updated == {n \in Nodes : pc[n] # "idle"} IN
  /\ Len(renderRequests) = Cardinality(updated)
  /\ \A i \in 1..Len(renderRequests) :
       /\ renderRequests[i].matrixOf = Preorder(parentOf)[i]
       /\ renderRequests[i].matrixOf \in updated

\* a step of a traversal keeps what the queue holds, and adds one request
\* at the end exactly when it is a node's update
QueueGrows ==
  (inFrame /\ inFrame') =>
    /\ SubSeq(renderRequests', 1, Len(renderRequests)) = renderRequests
    /\ Len(renderRequests') =
         Len(renderRequests) + Cardinality({n \in Nodes : pc[n] = "idle" /\ pc'[n] # "idle"})

C14_OnlyOwnUpdateWrites ==
  [][\A n \in Nodes :
       (global'[n].matrix # global[n].matrix \/ global'[n].alpha # global[n].alpha) =>
         (UpdateOf(n)' /\ lastOp'.arg = TRUE)]_vars

\* the application has called clearDirty on the child's Transform, the child
\* holding a matrix and an alpha that its update computed and its finalize
\* and a later update of its parent left
C14_Witness ==
  /\ lastOp.op = "clearDirty"
  /\ lastOp.node = 2
  /\ global[2].matrix # mat3_create
  /\ global[2].alpha # One
  /\ hist[1].read # None
  /\ hist[2].read # None
  /\ hist[2].read.parentMatrix # global[1].matrix

\* the inputs of node n with the parent's matrix and alpha of the moment
\* the traversal began
InputsAtBegin(n) ==
  IF parentOf[n] = Root THEN Inputs(n)
  ELSE [Inputs(n) EXCEPT !.parentMatrix = atBegin[parentOf[n]].matrix,
                         !.parentAlpha = atBegin[parentOf[n]].alpha]

IsComposition(n, in) ==
  /\ MatrixIsComposition(global[n].matrix, in)
  /\ AlphaIsProduct(global[n].alpha, in.parentAlpha, in.alpha)

\* C15: an incorrectly ordered traversal leaves the child at most one frame
\* behind: at the end of frame k the child's matrix and alpha are the
\* composition of its local values with the parent's value of frame k-1 (or
\* of frame k), so the child has caught up one frame after the parent
\* stopped changing.
C15_OneFrameBehind ==
  FrameEnded =>
    \A c \in Nodes :
      parentOf[c] # Root =>
        (IsComposition(c, InputsAtBegin(c)) \/ IsComposition(c, Inputs(c)))

\* C15, amended: in an incorrectly ordered traversal no update sees its
\* parent's dirty flag set, so a node updated in the frame recomputed exactly
\* if its own Transform was dirty when the frame began, reading the parent's
\* matrix and alpha as they were at the begin of the frame (child first) or
\* as they are now (parent first, finalized early), and otherwise it skipped
\* and holds the matrix and alpha it had when the frame began, for as many
\* frames as its own Transform stays unset.
C15_StaleUntilOwnChange ==
  /\ \A n \in Nodes : ~global[n].dirty
  /\ \A c \in Nodes :
       pc[c] # "idle" =>
         IF atBegin[c].localDirty
         THEN /\ path[c] = "recompute"
              /\ MatrixIsComposition(global[c].matrix, hist[c].read)
              /\ AlphaIsProduct(global[c].alpha, hist[c].read.parentAlpha,
                                hist[c].read.alpha)
              /\ hist[c].read.parentMatrix \in
                   {InputsAtBegin(c).parentMatrix, Inputs(c).parentMatrix}
         ELSE /\ path[c] = "skip"
              /\ global[c].matrix = atBegin[c].matrix
              /\ global[c].alpha = atBegin[c].alpha

\* a second frame has ended in which the parent did not change and the child
\* skipped, and the child still holds the composition with the parent's
\* value of before the first frame
C15_Witness ==
  /\ FrameEnded
  /\ frames = 2
  /\ \E c \in Nodes :
       /\ parentOf[c] # Root
       /\ path[c] = "skip"
       /\ path[parentOf[c]] = "skip"
       /\ ~IsComposition(c, Inputs(c))
       /\ ~IsComposition(c, InputsAtBegin(c))

\* C16: requests never persist across frames: the queue is empty when a
\* traversal begins, and at the end of every frame it holds one request for
\* each node updated in that frame and nothing else.
C16_NoRequestAcrossFrames ==
  /\ lastOp.op = "begin" => renderRequests = <<>>
  /\ FrameEnded =>
       /\ Len(renderRequests) = Cardinality(Nodes)
       /\ \A n \in Nodes :
            Cardinality({i \in 1..Len(renderRequests) :
                           renderRequests[i].matrixOf = n}) = 1

\* the last frame has ended, after an earlier frame had filled the queue
C16_Witness ==
  /\ FrameEnded
  /\ frames = MaxFrames
  /\ frames > 1
  /\ Len(renderRequests) = MaxNodes

\* node n and the nodes above it
RECURSIVE SelfAndAncestors(_)
SelfAndAncestors(n) ==
  IF n = Root THEN {} ELSE {n} \cup SelfAndAncestors(parentOf[n])

C18_UpdateOnlyReadsParent ==
  [][\A n \in Nodes :
       (UpdateOf(n)' /\ calls' # calls) =>
         /\ Fields(local'[n]) = Fields(local[n])
         /\ \A m \in Nodes \ {n} : global'[m] = global[m] /\ local'[m] = local[m]]_vars

\* the child has recomputed under a parent whose flag is set, and the
\* parent's flag is still set
C18_Witness ==
  /\ UpdateOf(2)
  /\ lastOp.arg = TRUE
  /\ parentOf[2] = 1
  /\ global[1].dirty
  /\ global[1].matrix # mat3_create
  /\ hist[2].read.parentMatrix = global[1].matrix

\* C19: at the end of every correctly ordered frame the dirty flags of every
\* node's Transform and GlobalTransform are false; and in a frame that began
\* with every Transform clean (no setter since the frame before), every
\* update takes the skip path and leaves matrix and alpha as they were when
\* the frame began, so that all flags are false again at its end.
C19_Quiescence ==
  /\ FrameEnded => \A n \in Nodes : ~local[n].dirty /\ ~global[n].dirty
  /\ ((inFrame \/ FrameEnded) /\ \A n \in Nodes : ~atBegin[n].localDirty) =>
       \A n \in Nodes :
         /\ pc[n] # "idle" => path[n] = "skip"
         /\ global[n].matrix = atBegin[n].matrix
         /\ global[n].alpha = atBegin[n].alpha
         /\ ~local[n].dirty
         /\ ~global[n].dirty

\* a frame with no setter before it has ended: every node skipped, on
\* matrices and alphas that an earlier frame computed
C19_Witness ==
  /\ FrameEnded
  /\ frames > 1
  /\ \A n \in Nodes : path[n] = "skip" /\ ~atBegin[n].localDirty
  /\ \E n \in Nodes : global[n].matrix # mat3_create /\ global[n].alpha # One

\* C20: a node that has not been updated yet holds a dirty Transform and the
\* constructor's GlobalTransform (identity, alpha 1, flag false); the first
\* update of a node recomputes, also under a parent whose flag is false, so
\* every node that has been updated has recomputed; and every queued request
\* belongs to a node that has recomputed and carries a matrix composed with
\* the parent's matrix that update read.
C20_FirstUpdateRecomputes ==
  /\ \A n \in Nodes :
       IF hist[n].seen = None
       THEN /\ local[n].dirty
            /\ global[n].matrix = mat3_create
            /\ global[n].alpha = One
            /\ ~global[n].dirty
       ELSE hist[n].read # None
  /\ \A i \in 1..Len(renderRequests) :
       LET n == renderRequests[i].matrixOf IN
       /\ hist[n].read # None
       /\ MatrixIsComposition(renderRequests[i].emitted, hist[n].read)

\* in the first frame the child is updated after its parent's whole update,
\* so under a parent whose flag is false, and it has recomputed and pushed
\* its request
C20_Witness ==
  /\ inFrame
  /\ frames = 0
  /\ parentOf[2] = 1
  /\ pc[1] = "finalized"
  /\ ~global[1].dirty
  /\ UpdateOf(2)
  /\ lastOp.arg = TRUE
  /\ RequestIndex(2) = 2
  /\ hist[2].read.parentMatrix = global[1].matrix

====
